---- MODULE Spec2Model ----
(***************************************************************************)
(* A model of aws-cloudtrail2plaso.py: the decoders (read_json_file,       *)
(* read_jsonl_file, read_gz_file), the aggregator                          *)
(* (read_files_from_directory), the normalizer                             *)
(* (convert_cloudtrail_to_plaso) and the chunked writer                    *)
(* (write_events_to_jsonl), chained by main.                               *)
(*                                                                         *)
(* Text is a sequence of characters.  A character is a string naming it:   *)
(*   "NL" '\n', "CR" '\r', "SP" ' ', "FF" '\f' (a control character that   *)
(*   str.splitlines treats as a line boundary), "LS" U+2028 (a line        *)
(*   boundary for str.splitlines that JSON allows raw inside a string),    *)
(*   "Q" the double quote, "," the comma between array elements,           *)
(*   "D" the text {"Records":[ and "E" the text ]} of a CloudTrail         *)
(*   document, and one name per JSON object text of ObjChars (an object    *)
(*   text written without whitespace or line boundaries in it).            *)
(***************************************************************************)
EXTENDS Integers, Sequences, FiniteSets, TLC

\* ------------------------------------------------------------------------
\* Bounds of the model
\* ------------------------------------------------------------------------
\* longest text drawn for the decoders run alone
MaxTextLen == 4
\* most records in the directories read_files_from_directory is run on
MaxRecords == 3
\* most records in the directories main is run on
MaxMainRecords == 2
\* longest resources list of the records convert_cloudtrail_to_plaso is run on
MaxResources == 2

\* ------------------------------------------------------------------------
\* Python values
\* ------------------------------------------------------------------------
\* eventTime strings, as the pieces strptime's format '%Y-%m-%dT%H:%M:%SZ'
\* cuts them into
GoodTime == <<"2024-08-12", "T", "10:15:30", "Z">>
SubSecondTime == <<"2024-08-12", "T", "10:15:30", ".123", "Z">>
Dates == {"2024-08-12"}
Clocks == {"10:15:30"}

\* the JSON objects the object characters stand for
Obj(c) ==
  CASE c = "A1" -> [eventID |-> "a", eventTime |-> GoodTime, eventName |-> "GetObject",
                    eventSource |-> "s3.amazonaws.com", readOnly |-> TRUE,
                    userIdentity |-> [userName |-> "alice"], payload |-> 1]
    [] c = "A2" -> [eventID |-> "a", eventTime |-> GoodTime, eventName |-> "GetObject",
                    eventSource |-> "s3.amazonaws.com", readOnly |-> TRUE,
                    userIdentity |-> [userName |-> "alice"], payload |-> 2]
    [] c = "B1" -> [eventID |-> "b", eventTime |-> GoodTime, eventName |-> "PutObject",
                    eventSource |-> "s3.amazonaws.com", readOnly |-> FALSE,
                    userIdentity |-> [accessKeyId |-> "AKIA"],
                    resources |-> <<[type |-> "AWS::S3::Object"]>>, payload |-> 1]
    [] c = "NoId" -> [eventTime |-> GoodTime, eventName |-> "GetObject",
                    eventSource |-> "s3.amazonaws.com", readOnly |-> TRUE,
                    userIdentity |-> [userName |-> "alice"], payload |-> 1]
    [] c = "BadT" -> [eventID |-> "t", eventTime |-> SubSecondTime, eventName |-> "GetObject",
                    eventSource |-> "s3.amazonaws.com", readOnly |-> TRUE,
                    userIdentity |-> [userName |-> "alice"], payload |-> 1]
    [] c = "NoNm" -> [eventID |-> "n", eventTime |-> GoodTime,
                    eventSource |-> "s3.amazonaws.com", readOnly |-> TRUE,
                    userIdentity |-> [userName |-> "alice"], payload |-> 1]
ObjChars == {"A1", "A2", "B1", "NoId", "BadT", "NoNm"}

\* ------------------------------------------------------------------------
\* json.loads on the model's JSON: whitespace between tokens is dropped, a
\* string is Q ... Q with no control character in it, a document is
\* D value , value ... E
\* ------------------------------------------------------------------------
JsonWhitespace == {"SP", "NL", "CR"}
ControlChars == {"NL", "CR", "FF"}
\* characters whose own text holds a double quote
QuotedChars == ObjChars \cup {"D"}

RECURSIVE Scan(_, _, _, _)
\* the scanner: [ok, out], out being the text without the whitespace that
\* stands outside strings
Scan(s, i, inStr, acc) ==
  IF i > Len(s) THEN [ok |-> ~inStr, out |-> acc]
  ELSE LET c == s[i] IN
    IF inStr
      THEN IF c = "Q" THEN Scan(s, i + 1, FALSE, Append(acc, c))
           ELSE IF c \in ControlChars \cup QuotedChars THEN [ok |-> FALSE, out |-> <<>>]
           ELSE Scan(s, i + 1, TRUE, Append(acc, c))
      ELSE IF c \in JsonWhitespace THEN Scan(s, i + 1, FALSE, acc)
           ELSE IF c = "Q" THEN Scan(s, i + 1, TRUE, Append(acc, c))
           ELSE IF c \in ObjChars \cup {"D", "E", ","} THEN Scan(s, i + 1, FALSE, Append(acc, c))
           ELSE [ok |-> FALSE, out |-> <<>>]

\* the index where the object or string starting at s[i] ends, 0 if none does
ValueEnd(s, i) ==
  IF i > Len(s) THEN 0
  ELSE IF s[i] \in ObjChars THEN i
  ELSE IF s[i] = "Q"
    THEN LET close == {j \in (i + 1)..Len(s) : s[j] = "Q"} IN
         IF close = {} THEN 0 ELSE CHOOSE j \in close : \A k \in close : j <= k
  ELSE 0

RECURSIVE Elements(_, _, _)
\* the elements of the array of a document, from s[i] on: [ok, items]
Elements(s, i, acc) ==
  LET e == ValueEnd(s, i) IN
  IF e = 0 THEN [ok |-> FALSE, items |-> <<>>]
  ELSE IF e + 1 = Len(s) /\ s[e + 1] = "E"
    THEN [ok |-> TRUE, items |-> Append(acc, SubSeq(s, i, e))]
  ELSE IF e + 1 < Len(s) /\ s[e + 1] = ","
    THEN Elements(s, e + 2, Append(acc, SubSeq(s, i, e)))
  ELSE [ok |-> FALSE, items |-> <<>>]

\* the Records array of a document value
DocRecords(v) ==
  IF Len(v) = 2 THEN <<>> ELSE Elements(v, 2, <<>>).items

IsDoc(v) ==
  /\ Len(v) >= 2
  /\ v[1] = "D"
  /\ \/ Len(v) = 2 /\ v[2] = "E"
     \/ Elements(v, 2, <<>>).ok

JsonFail == [ok |-> FALSE, val |-> <<>>]

\* json.loads(text): [ok, val]; val is the value's text in canonical form
json_loads(text) ==
  LET c == Scan(text, 1, FALSE, <<>>) IN
  IF ~c.ok \/ c.out = <<>> THEN JsonFail
  ELSE IF ValueEnd(c.out, 1) = Len(c.out) \/ IsDoc(c.out)
    THEN [ok |-> TRUE, val |-> c.out]
  ELSE JsonFail

\* value is a dict that has the key
HasKey(v, key) ==
  IF v[1] \in ObjChars THEN key \in DOMAIN Obj(v[1])
  ELSE IF v[1] = "D" THEN key = "Records"
  ELSE FALSE

\* the Python dict a decoded object value is
AsDict(v) == Obj(v[1])

\* ------------------------------------------------------------------------
\* Reading text files
\* ------------------------------------------------------------------------
RECURSIVE TranslateNewlines(_)
\* text mode with newline=None: '\r\n' and '\r' are read as '\n'
TranslateNewlines(s) ==
  IF s = <<>> THEN <<>>
  ELSE IF s[1] = "CR"
    THEN IF Len(s) >= 2 /\ s[2] = "NL"
           THEN <<"NL">> \o TranslateNewlines(SubSeq(s, 3, Len(s)))
           ELSE <<"NL">> \o TranslateNewlines(Tail(s))
  ELSE <<s[1]>> \o TranslateNewlines(Tail(s))

RECURSIVE FileLines(_, _)
\* iterating a text file: each line keeps its '\n'; a last line without one
\* is yielded when it is not empty
FileLines(s, cur) ==
  IF s = <<>> THEN (IF cur = <<>> THEN <<>> ELSE <<cur>>)
  ELSE IF s[1] = "NL" THEN <<Append(cur, "NL")>> \o FileLines(Tail(s), <<>>)
  ELSE FileLines(Tail(s), Append(cur, s[1]))

\* the line boundaries of str.splitlines
LineBoundaries == {"NL", "CR", "FF", "LS"}

RECURSIVE splitlines(_, _)
\* str.splitlines(): boundaries are dropped, '\r\n' is one boundary, and no
\* empty last line is produced
splitlines(s, cur) ==
  IF s = <<>> THEN (IF cur = <<>> THEN <<>> ELSE <<cur>>)
  ELSE IF s[1] = "CR" /\ Len(s) >= 2 /\ s[2] = "NL"
    THEN <<cur>> \o splitlines(SubSeq(s, 3, Len(s)), <<>>)
  ELSE IF s[1] \in LineBoundaries THEN <<cur>> \o splitlines(Tail(s), <<>>)
  ELSE splitlines(Tail(s), Append(cur, s[1]))

DecodeFail == [ok |-> FALSE, Records |-> <<>>]

RECURSIVE LoadLines(_, _)
\* json.loads on each line in turn; the first failure raises
LoadLines(lines, acc) ==
  IF lines = <<>> THEN [ok |-> TRUE, Records |-> acc]
  ELSE LET r == json_loads(lines[1]) IN
       IF r.ok THEN LoadLines(Tail(lines), Append(acc, r.val)) ELSE DecodeFail

\* read_json_file(path)['Records'] on a file holding text
read_json_file(text) ==
  LET r == json_loads(TranslateNewlines(text)) IN
  IF r.ok /\ HasKey(r.val, "Records")
    THEN [ok |-> TRUE, Records |-> DocRecords(r.val)]
    ELSE DecodeFail

\* read_jsonl_file(path)['Records'] on a file holding text
read_jsonl_file(text) ==
  LoadLines(FileLines(TranslateNewlines(text), <<>>), <<>>)

\* read_gz_file(path)['Records'] on a gzip file whose decompressed text is
\* text; jsonl_name is file_path.endswith('.jsonl.gz')
read_gz_file(text, jsonl_name) ==
  LET content == TranslateNewlines(text) IN
  IF jsonl_name
    THEN LoadLines(splitlines(content, <<>>), <<>>)
    ELSE LET r == json_loads(content) IN
         IF r.ok /\ HasKey(r.val, "Records")
           THEN [ok |-> TRUE, Records |-> DocRecords(r.val)]
           ELSE DecodeFail

\* ------------------------------------------------------------------------
\* The state
\* ------------------------------------------------------------------------
VARIABLES
  pc,                 \* the statement the run is at
  raised,             \* the exception that ended the run, "" while none has
  dec_text,           \* decoders alone: the text both decoders are given
  dec_jsonl,          \* decoders alone: what read_jsonl_file gave
  dec_gz,             \* decoders alone: what read_gz_file gave
  file_paths,         \* the files os.walk found, in traversal order
  index,              \* read_files_from_directory: files taken so far
  open_inputs,        \* positions in file_paths of the input handles that are open
  records,            \* read_files_from_directory: records of the current file
  rec_i,              \* read_files_from_directory: records of it inserted so far
  all_records,        \* read_files_from_directory: the dict, as its items in dict order
  total_records,
  unique_records,
  duplicates_removed,
  cloudtrail_data,    \* the 'Records' list read_files_from_directory returned
  events,             \* convert_cloudtrail_to_plaso: the events list
  dir_made,           \* os.makedirs has run
  file_index,
  line_count,
  output_file,        \* write_events_to_jsonl: the current file object
  multiple_files,
  fs,                 \* the output files on disk: path -> lines
  opened,             \* every file object write_events_to_jsonl opened, in order
  open_outputs        \* the file objects among them that are not closed

decVars == <<dec_text, dec_jsonl, dec_gz>>
aggVars == <<file_paths, index, open_inputs, records, rec_i, all_records,
             total_records, unique_records, duplicates_removed, cloudtrail_data>>
normVars == <<events>>
writeVars == <<dir_made, file_index, line_count, output_file, multiple_files,
               fs, opened, open_outputs>>
vars == <<pc, raised, decVars, aggVars, normVars, writeVars>>

\* the value of a decoder result variable before the decoder has run
NotRun == [ok |-> FALSE, Records |-> <<<<"not run">>>>]
\* output_file = None
NoFile == [id |-> 0, path |-> <<>>]

\* ------------------------------------------------------------------------
\* The decoders run alone on one text
\* ------------------------------------------------------------------------
\* read_jsonl_file on a file holding dec_text
ReadJsonl ==
  /\ pc = "decode"
  /\ dec_jsonl = NotRun
  /\ dec_jsonl' = read_jsonl_file(dec_text)
  /\ UNCHANGED <<pc, raised, dec_text, dec_gz, aggVars, normVars, writeVars>>

\* read_gz_file on a .jsonl.gz file whose decompressed text is dec_text
ReadGz ==
  /\ pc = "decode"
  /\ dec_gz = NotRun
  /\ dec_gz' = read_gz_file(dec_text, TRUE)
  /\ UNCHANGED <<pc, raised, dec_text, dec_jsonl, aggVars, normVars, writeVars>>

\* ------------------------------------------------------------------------
\* read_files_from_directory
\* ------------------------------------------------------------------------
\* A file name is the sequence of its dot-separated suffix parts:
\* <<"jsonl", "gz">> is a name ending in .jsonl.gz
EndsWith(name, suffix) ==
  /\ Len(name) >= Len(suffix)
  /\ SubSeq(name, Len(name) - Len(suffix) + 1, Len(name)) = suffix

\* the if / elif chain on the extension reaches a reader
Recognized(name) ==
  \/ EndsWith(name, <<"json">>)
  \/ EndsWith(name, <<"jsonl">>)
  \/ EndsWith(name, <<"gz">>)

\* the reader the if / elif chain picks, applied to the file, then ['Records']
ReadByExtension(file) ==
  IF EndsWith(file.name, <<"json">>) THEN read_json_file(file.text)
  ELSE IF EndsWith(file.name, <<"jsonl">>) THEN read_jsonl_file(file.text)
  ELSE read_gz_file(file.text, EndsWith(file.name, <<"jsonl", "gz">>))

\* a dict assignment that leaves the value of a key the dict has alone
DictSetKeepsFirst(d, k, v) ==
  IF \E i \in 1..Len(d) : d[i].key = k THEN d
    ELSE Append(d, [key |-> k, value |-> v])

\* a dict assignment that moves a key the dict has to the end
DictSetMovesToEnd(d, k, v) ==
  Append(SelectSeq(d, LAMBDA item : item.key /= k), [key |-> k, value |-> v])

\* d[k] = v on a dict: a key the dict has keeps its position and takes the
\* new value, a new key goes last
DictSet(d, k, v) ==
  IF \E i \in 1..Len(d) : d[i].key = k
    THEN [i \in 1..Len(d) |-> IF d[i].key = k THEN [key |-> k, value |-> v] ELSE d[i]]
    ELSE Append(d, [key |-> k, value |-> v])

\* list(d.values())
DictValues(d) == [i \in 1..Len(d) |-> d[i].value]

\* leaving a with block, by return or by exception, closes its file
WithExit(handles, h) == handles \ {h}

\* for index, file_path in enumerate(file_paths): a name no branch takes
AggSkipFile ==
  /\ pc = "agg_loop"
  /\ index < Len(file_paths)
  /\ ~Recognized(file_paths[index + 1].name)
  /\ index' = index + 1
  /\ UNCHANGED <<pc, raised, decVars, file_paths, open_inputs, records, rec_i,
                 all_records, total_records, unique_records, duplicates_removed,
                 cloudtrail_data, normVars, writeVars>>

\* a recognized name: the reader opens the file
AggOpenFile ==
  /\ pc = "agg_loop"
  /\ index < Len(file_paths)
  /\ Recognized(file_paths[index + 1].name)
  /\ index' = index + 1
  /\ open_inputs' = open_inputs \cup {index + 1}
  /\ pc' = "agg_read"
  /\ UNCHANGED <<raised, decVars, file_paths, records, rec_i, all_records,
                 total_records, unique_records, duplicates_removed,
                 cloudtrail_data, normVars, writeVars>>

\* the reader parses the file and returns its records
AggReadFile ==
  /\ pc = "agg_read"
  /\ LET r == ReadByExtension(file_paths[index]) IN
       /\ r.ok
       /\ records' = r.Records
  /\ rec_i' = 0
  /\ open_inputs' = WithExit(open_inputs, index)
  /\ pc' = "agg_insert"
  /\ UNCHANGED <<raised, decVars, file_paths, index, all_records, total_records,
                 unique_records, duplicates_removed, cloudtrail_data, normVars,
                 writeVars>>

\* the reader raises: json.JSONDecodeError, or KeyError on ['Records']
AggReadRaises ==
  /\ pc = "agg_read"
  /\ ~ReadByExtension(file_paths[index]).ok
  /\ open_inputs' = WithExit(open_inputs, index)
  /\ raised' = "decode"
  /\ pc' = "failed"
  /\ UNCHANGED <<decVars, file_paths, index, records, rec_i, all_records,
                 total_records, unique_records, duplicates_removed,
                 cloudtrail_data, normVars, writeVars>>

\* all_records[record['eventID']] = record
AggInsertRecord ==
  /\ pc = "agg_insert"
  /\ rec_i < Len(records)
  /\ HasKey(records[rec_i + 1], "eventID")
  /\ LET record == AsDict(records[rec_i + 1]) IN
       all_records' = DictSet(all_records, record.eventID, record)
  /\ rec_i' = rec_i + 1
  /\ UNCHANGED <<pc, raised, decVars, file_paths, index, open_inputs, records,
                 total_records, unique_records, duplicates_removed,
                 cloudtrail_data, normVars, writeVars>>

\* record['eventID'] raises: the record has no eventID, or is no dict
AggInsertRaises ==
  /\ pc = "agg_insert"
  /\ rec_i < Len(records)
  /\ ~HasKey(records[rec_i + 1], "eventID")
  /\ raised' = "missing field"
  /\ pc' = "failed"
  /\ UNCHANGED <<decVars, aggVars, normVars, writeVars>>

\* total_records += len(records), after the file's records are inserted
AggCountFile ==
  /\ pc = "agg_insert"
  /\ rec_i = Len(records)
  /\ total_records' = total_records + Len(records)
  /\ pc' = "agg_loop"
  /\ UNCHANGED <<raised, decVars, file_paths, index, open_inputs, records, rec_i,
                 all_records, unique_records, duplicates_removed,
                 cloudtrail_data, normVars, writeVars>>

\* after the last file: the counts, and return {'Records': list(values)}
AggReturn ==
  /\ pc = "agg_loop"
  /\ index = Len(file_paths)
  /\ unique_records' = Len(all_records)
  /\ duplicates_removed' = total_records - Len(all_records)
  /\ cloudtrail_data' = DictValues(all_records)
  /\ pc' = "agg_returned"
  /\ UNCHANGED <<raised, decVars, file_paths, index, open_inputs, records, rec_i,
                 all_records, total_records, normVars, writeVars>>

\* ------------------------------------------------------------------------
\* convert_event_time_to_local
\* ------------------------------------------------------------------------
\* datetime.strptime(s, '%Y-%m-%dT%H:%M:%SZ') accepts s
strptime_ok(s) ==
  /\ Len(s) = 4
  /\ s[1] \in Dates
  /\ s[2] = "T"
  /\ s[3] \in Clocks
  /\ s[4] = "Z"

\* utc_time.replace(tzinfo=timezone.utc).isoformat()
isoformat(s) == <<s[1], "T", s[3], "+00:00">>

\* str.replace(old, new) on the pieces
Replace(s, old, new) == [i \in 1..Len(s) |-> IF s[i] = old THEN new ELSE s[i]]

\* [:-6] takes the six characters of the offset away
WithoutOffset(s) == SubSeq(s, 1, Len(s) - 1)

convert_event_time_to_local(s) ==
  WithoutOffset(Replace(isoformat(s), "T", " ")) \o <<"+00:00">>

\* ------------------------------------------------------------------------
\* convert_cloudtrail_to_plaso
\* ------------------------------------------------------------------------
\* d.get(k, default)
Get(d, k, default) == IF k \in DOMAIN d THEN d[k] ELSE default

\* str(b).lower()
StrLower(b) == IF b THEN "true" ELSE "false"

\* the list comprehension's entry with '' for a missing ARN
ResourceEntryBlankDefault(resource) ==
  [ResourceType |-> Get(resource, "type", "Unknown"),
   ResourceName |-> Get(resource, "ARN", "")]

\* one entry of the 'Resources' list comprehension
ResourceEntry(resource) ==
  [ResourceType |-> Get(resource, "type", "Unknown"),
   ResourceName |-> Get(resource, "ARN", "Unknown")]

\* json.dumps(record) with '\n', '\t' and ' ' taken out
Squeezed(record) == [dumps |-> record, without |-> {"NL", "TAB", "SP"}]

\* the keys the loop body subscripts
RequiredFields ==
  {"eventTime", "eventID", "eventName", "readOnly", "userIdentity", "eventSource"}

\* the exception the loop body raises on the record, "" if it raises none:
\* record['eventTime'] is read and converted first, the other keys after
NormalizeError(record) ==
  IF "eventTime" \notin DOMAIN record THEN "missing field"
  ELSE IF ~strptime_ok(record.eventTime) THEN "timestamp"
  ELSE IF ~(RequiredFields \subseteq DOMAIN record) THEN "missing field"
  ELSE ""

\* the event dict the loop body builds
Normalize(record) ==
  LET resources == Get(record, "resources", <<>>) IN
  [EventId |-> record.eventID,
   EventName |-> record.eventName,
   ReadOnly |-> StrLower(record.readOnly),
   AccessKeyId |-> Get(record.userIdentity, "accessKeyId", ""),
   EventTime |-> convert_event_time_to_local(record.eventTime),
   EventSource |-> record.eventSource,
   Username |-> Get(record.userIdentity, "userName", ""),
   Resources |-> [i \in 1..Len(resources) |-> ResourceEntry(resources[i])],
   CloudTrailEvent |-> Squeezed(record)]

\* one turn of for record in cloudtrail_data['Records']
NormRecord ==
  /\ pc = "norm_loop"
  /\ Len(events) < Len(cloudtrail_data)
  /\ LET record == cloudtrail_data[Len(events) + 1] IN
       /\ NormalizeError(record) = ""
       /\ events' = Append(events, Normalize(record))
  /\ UNCHANGED <<pc, raised, decVars, aggVars, writeVars>>

\* a loop that notes the exception, drops the record and goes on
NormRaisesSkips ==
  /\ pc = "norm_loop"
  /\ Len(events) < Len(cloudtrail_data)
  /\ NormalizeError(cloudtrail_data[Len(events) + 1]) /= ""
  /\ raised' = NormalizeError(cloudtrail_data[Len(events) + 1])
  /\ cloudtrail_data' = SubSeq(cloudtrail_data, 1, Len(events))
                          \o SubSeq(cloudtrail_data, Len(events) + 2, Len(cloudtrail_data))
  /\ UNCHANGED <<pc, decVars, file_paths, index, open_inputs, records, rec_i,
                 all_records, total_records, unique_records, duplicates_removed,
                 normVars, writeVars>>

\* the loop body raises KeyError or ValueError
NormRaises ==
  /\ pc = "norm_loop"
  /\ Len(events) < Len(cloudtrail_data)
  /\ NormalizeError(cloudtrail_data[Len(events) + 1]) /= ""
  /\ raised' = NormalizeError(cloudtrail_data[Len(events) + 1])
  /\ pc' = "failed"
  /\ UNCHANGED <<decVars, aggVars, normVars, writeVars>>

\* return events
NormReturn ==
  /\ pc = "norm_loop"
  /\ Len(events) = Len(cloudtrail_data)
  /\ pc' = "norm_returned"
  /\ UNCHANGED <<raised, decVars, aggVars, normVars, writeVars>>

\* ------------------------------------------------------------------------
\* write_events_to_jsonl
\* ------------------------------------------------------------------------
\* The code splits at 500000 lines.  The model runs the same code with a
\* smaller number, so that runs on both sides of it and at twice it are
\* short.
Threshold == 3

\* the output_filepath argument
OutputFilepath == <<"out/events.jsonl">>

\* f"{output_filepath}_part{file_index}"
PartPath(path, i) == path \o <<"_part", i>>

\* multiple_files = len(events) > 500000
IsMultiple(n) == n > Threshold

\* a boundary test one line late
AtBoundaryOneLate(n) == n % (Threshold + 1) = 0

\* line_count % 500000 == 0
AtBoundary(n) == n % Threshold = 0

\* current_output_filepath
CurrentPath(multiple, i) ==
  IF multiple THEN PartPath(OutputFilepath, i) ELSE OutputFilepath

\* json.dumps(event) + '\n'
Line(event) == [dumps |-> event, end |-> "NL"]

\* a close that is left out
CloseLeftOut(handles, file) == handles

\* output_file.close() under if output_file:
CloseIfOpen(handles, file) == IF file /= NoFile THEN handles \ {file} ELSE handles

\* os.makedirs and the four assignments before the loop
W_Start ==
  /\ pc = "w_start"
  /\ dir_made' = TRUE
  /\ file_index' = 0
  /\ line_count' = 0
  /\ output_file' = NoFile
  /\ multiple_files' = IsMultiple(Len(events))
  /\ pc' = "w_loop"
  /\ UNCHANGED <<raised, decVars, aggVars, normVars, fs, opened, open_outputs>>

\* for event in events: the next event, and the test of line_count.
\* line_count is also the number of events the loop has taken.
W_NextEvent ==
  /\ pc = "w_loop"
  /\ line_count < Len(events)
  /\ pc' = IF AtBoundary(line_count) THEN "w_split" ELSE "w_write"
  /\ UNCHANGED <<raised, decVars, aggVars, normVars, writeVars>>

\* if output_file: output_file.close()
W_CloseChunk ==
  /\ pc = "w_split"
  /\ open_outputs' = CloseIfOpen(open_outputs, output_file)
  /\ pc' = "w_open"
  /\ UNCHANGED <<raised, decVars, aggVars, normVars, dir_made, file_index,
                 line_count, output_file, multiple_files, fs, opened>>

\* file_index += 1 and open(current_output_filepath, 'w')
W_OpenChunk ==
  /\ pc = "w_open"
  /\ file_index' = file_index + 1
  /\ LET path == CurrentPath(multiple_files, file_index + 1)
         file == [id |-> file_index + 1, path |-> path]
     IN  /\ output_file' = file
         /\ fs' = (path :> <<>>) @@ fs
         /\ opened' = Append(opened, file)
         /\ open_outputs' = open_outputs \cup {file}
  /\ pc' = "w_write"
  /\ UNCHANGED <<raised, decVars, aggVars, normVars, dir_made, line_count,
                 multiple_files>>

\* open raises OSError
W_OpenRaises ==
  /\ pc = "w_open"
  /\ file_index' = file_index + 1
  /\ raised' = "io"
  /\ pc' = "failed"
  /\ UNCHANGED <<decVars, aggVars, normVars, dir_made, line_count, output_file,
                 multiple_files, fs, opened, open_outputs>>

\* output_file.write(json.dumps(event) + '\n') and line_count += 1
W_WriteLine ==
  /\ pc = "w_write"
  /\ fs' = [fs EXCEPT ![output_file.path] = Append(@, Line(events[line_count + 1]))]
  /\ line_count' = line_count + 1
  /\ pc' = "w_loop"
  /\ UNCHANGED <<raised, decVars, aggVars, normVars, dir_made, file_index,
                 output_file, multiple_files, opened, open_outputs>>

\* write raises OSError; nothing closes output_file
W_WriteRaises ==
  /\ pc = "w_write"
  /\ raised' = "io"
  /\ pc' = "failed"
  /\ UNCHANGED <<decVars, aggVars, normVars, writeVars>>

\* after the loop: if output_file: output_file.close(), and return
W_Finish ==
  /\ pc = "w_loop"
  /\ line_count = Len(events)
  /\ open_outputs' = CloseIfOpen(open_outputs, output_file)
  /\ pc' = "w_returned"
  /\ UNCHANGED <<raised, decVars, aggVars, normVars, dir_made, file_index,
                 line_count, output_file, multiple_files, fs, opened>>

\* ------------------------------------------------------------------------
\* main
\* ------------------------------------------------------------------------
\* cloudtrail_data = read_files_from_directory(args.input_directory)
MainReadFiles ==
  /\ pc = "main"
  /\ pc' = "agg_loop"
  /\ UNCHANGED <<raised, decVars, aggVars, normVars, writeVars>>

\* events = convert_cloudtrail_to_plaso(cloudtrail_data)
MainConvert ==
  /\ pc = "agg_returned"
  /\ pc' = "norm_loop"
  /\ UNCHANGED <<raised, decVars, aggVars, normVars, writeVars>>

\* write_events_to_jsonl(events, args.output_filepath)
MainWrite ==
  /\ pc = "norm_returned"
  /\ pc' = "w_start"
  /\ UNCHANGED <<raised, decVars, aggVars, normVars, writeVars>>

\* ------------------------------------------------------------------------
\* Inputs
\* ------------------------------------------------------------------------
SeqsUpTo(S, n) == UNION {[1..k -> S] : k \in 0..n}

RECURSIVE LinesText(_)
\* the records one per line, each line ended by '\n'
LinesText(rs) ==
  IF rs = <<>> THEN <<>> ELSE <<rs[1], "NL">> \o LinesText(Tail(rs))

RECURSIVE CommaSeparated(_)
CommaSeparated(rs) ==
  IF rs = <<>> THEN <<>>
  ELSE IF Len(rs) = 1 THEN <<rs[1]>>
  ELSE <<rs[1], ",">> \o CommaSeparated(Tail(rs))

\* the document {"Records":[...]} of the records
DocText(rs) == <<"D">> \o CommaSeparated(rs) \o <<"E">>

\* the kinds of file a directory holds: a name and what is written in it
FileKinds ==
  {[name |-> <<"json">>, format |-> "doc"],
   [name |-> <<"jsonl">>, format |-> "lines"],
   [name |-> <<"jsonl", "gz">>, format |-> "lines"],
   [name |-> <<"json", "gz">>, format |-> "doc"],
   [name |-> <<"txt">>, format |-> "lines"],
   [name |-> <<"jsonl">>, format |-> "lines and a blank line"]}

FileOf(kind, rs) ==
  [name |-> kind.name,
   text |-> CASE kind.format = "doc" -> DocText(rs)
              [] kind.format = "lines" -> LinesText(rs)
              [] kind.format = "lines and a blank line" -> LinesText(rs) \o <<"NL">>]

\* the directories of two files that hold, in traversal order, the records
\* of a sequence of at most n object texts of objs
Directories(objs, n) ==
  {<<>>} \cup
  UNION {{<<FileOf(k1, SubSeq(rs, 1, cut)), FileOf(k2, SubSeq(rs, cut + 1, Len(rs)))>> :
            cut \in 0..Len(rs), k1 \in FileKinds, k2 \in FileKinds} :
         rs \in SeqsUpTo(objs, n)}

EmptyDict == <<>>
UserIdentities ==
  {[userName |-> "alice", accessKeyId |-> "AKIA"], [userName |-> "alice"],
   [accessKeyId |-> "AKIA"], EmptyDict}
ResourceDicts ==
  {[type |-> "AWS::S3::Object", ARN |-> "arn:aws:s3:::b/k"],
   [type |-> "AWS::S3::Object"], [ARN |-> "arn:aws:s3:::b/k"], EmptyDict}

Without(d, k) == [x \in DOMAIN d \ {k} |-> d[x]]

\* the records convert_cloudtrail_to_plaso is run on: every choice of the
\* optional fields, a good or a bad eventTime, and records short of one
\* required field
NormRecords ==
  LET full == {[eventID |-> "a", eventTime |-> t, eventName |-> "GetObject",
                eventSource |-> "s3.amazonaws.com", readOnly |-> ro,
                userIdentity |-> ui, resources |-> rs] :
                 t \in {GoodTime, SubSecondTime}, ro \in BOOLEAN,
                 ui \in UserIdentities, rs \in SeqsUpTo(ResourceDicts, MaxResources)}
  IN  full
      \cup {Without(r, "resources") : r \in full}
      \cup {Without(Obj("B1"), f) : f \in RequiredFields}

NormInputs ==
  {<<>>} \cup {<<r>> : r \in NormRecords}
         \cup {<<r, Obj(c)>> : r \in NormRecords, c \in {"A2", "B1", "BadT"}}

\* the decoded event with the given id, for the writer run alone
EventNo(i) == [EventId |-> i]

\* ------------------------------------------------------------------------
\* Specifications
\* ------------------------------------------------------------------------
DecIdle == dec_text = <<>> /\ dec_jsonl = NotRun /\ dec_gz = NotRun

\* all_records = {}, total_records = 0, before any file is taken
AggFresh ==
  /\ index = 0
  /\ open_inputs = {}
  /\ records = <<>>
  /\ rec_i = 0
  /\ all_records = <<>>
  /\ total_records = 0
  /\ unique_records = 0
  /\ duplicates_removed = 0
  /\ cloudtrail_data = <<>>

WriteFresh ==
  /\ dir_made = FALSE
  /\ file_index = 0
  /\ line_count = 0
  /\ output_file = NoFile
  /\ multiple_files = FALSE
  /\ fs = <<>>
  /\ opened = <<>>
  /\ open_outputs = {}

\* the characters of the texts the decoders are run on
DecodeChars == {"A1", "B1", "Q", "SP", "NL", "CR", "LS", "FF"}

InitDecode ==
  /\ pc = "decode"
  /\ raised = ""
  /\ dec_text \in SeqsUpTo(DecodeChars, MaxTextLen)
  /\ dec_jsonl = NotRun
  /\ dec_gz = NotRun
  /\ file_paths = <<>>
  /\ AggFresh
  /\ events = <<>>
  /\ WriteFresh

NextDecode == ReadJsonl \/ ReadGz

SpecDecode == InitDecode /\ [][NextDecode]_vars

InitAgg ==
  /\ pc = "agg_loop"
  /\ raised = ""
  /\ DecIdle
  /\ file_paths \in Directories({"A1", "A2", "B1", "NoId"}, MaxRecords)
  /\ AggFresh
  /\ events = <<>>
  /\ WriteFresh

NextAgg ==
  \/ AggSkipFile
  \/ AggOpenFile
  \/ AggReadFile
  \/ AggReadRaises
  \/ AggInsertRecord
  \/ AggInsertRaises
  \/ AggCountFile
  \/ AggReturn

SpecAgg == InitAgg /\ [][NextAgg]_vars

InitNorm ==
  /\ pc = "norm_loop"
  /\ raised = ""
  /\ DecIdle
  /\ file_paths = <<>>
  /\ index = 0
  /\ open_inputs = {}
  /\ records = <<>>
  /\ rec_i = 0
  /\ all_records = <<>>
  /\ total_records = 0
  /\ unique_records = 0
  /\ duplicates_removed = 0
  /\ cloudtrail_data \in NormInputs
  /\ events = <<>>
  /\ WriteFresh

NextNorm == NormRecord \/ NormRaises \/ NormReturn

SpecNorm == InitNorm /\ [][NextNorm]_vars

\* most events the writer is run on: one more than twice the threshold
MaxEvents == 2 * Threshold + 1

InitWrite ==
  /\ pc = "w_start"
  /\ raised = ""
  /\ DecIdle
  /\ file_paths = <<>>
  /\ AggFresh
  /\ events \in {[i \in 1..n |-> EventNo(i)] : n \in 0..MaxEvents}
  /\ WriteFresh

NextWrite ==
  \/ W_Start
  \/ W_NextEvent
  \/ W_CloseChunk
  \/ W_OpenChunk
  \/ W_OpenRaises
  \/ W_WriteLine
  \/ W_WriteRaises
  \/ W_Finish

SpecWrite == InitWrite /\ [][NextWrite]_vars

Init ==
  /\ pc = "main"
  /\ raised = ""
  /\ DecIdle
  /\ file_paths \in Directories(ObjChars, MaxMainRecords)
  /\ AggFresh
  /\ events = <<>>
  /\ WriteFresh

Next ==
  \/ MainReadFiles
  \/ NextAgg
  \/ MainConvert
  \/ NextNorm
  \/ MainWrite
  \/ NextWrite

Spec == Init /\ [][Next]_vars

\* ------------------------------------------------------------------------
\* Properties
\* ------------------------------------------------------------------------
RECURSIVE Flatten(_)
Flatten(ss) == IF ss = <<>> THEN <<>> ELSE ss[1] \o Flatten(Tail(ss))

\* the records of the recognized files of the directory, in the order
\* read_files_from_directory meets them
Seen ==
  LET perFile == [i \in 1..Len(file_paths) |->
                    IF Recognized(file_paths[i].name)
                      THEN ReadByExtension(file_paths[i]).Records ELSE <<>>]
      values == Flatten(perFile)
  IN  [i \in 1..Len(values) |-> AsDict(values[i])]

SeenIds == {Seen[i].eventID : i \in 1..Len(Seen)}
FirstSeen(id) == CHOOSE i \in 1..Len(Seen) :
  Seen[i].eventID = id /\ \A j \in 1..Len(Seen) : Seen[j].eventID = id => i <= j
LastSeen(id) == CHOOSE i \in 1..Len(Seen) :
  Seen[i].eventID = id /\ \A j \in 1..Len(Seen) : Seen[j].eventID = id => j <= i

\* C1: when read_files_from_directory returns, the index holds one entry per
\* distinct eventID seen, each entry is the record with that eventID that was
\* processed last, and unique_records + duplicates_removed is the number of
\* records decoded.
C1_LastWriteWins ==
  pc = "agg_returned" =>
    /\ {all_records[i].key : i \in 1..Len(all_records)} = SeenIds
    /\ Len(all_records) = Cardinality(SeenIds)
    /\ \A i \in 1..Len(all_records) :
         all_records[i].value = Seen[LastSeen(all_records[i].key)]
    /\ unique_records = Cardinality(SeenIds)
    /\ total_records = Len(Seen)
    /\ unique_records + duplicates_removed = Len(Seen)

\* a run over two files that returned after a later record replaced an
\* earlier, different one with the same eventID
C1_Witness ==
  /\ pc = "agg_returned"
  /\ duplicates_removed >= 1
  /\ unique_records >= 2
  /\ \E id \in SeenIds : Seen[FirstSeen(id)] /= Seen[LastSeen(id)]
  /\ \A i \in 1..Len(file_paths) : file_paths[i].text /= <<>>

\* C4: the list read_files_from_directory returns has each distinct eventID
\* once, in the order of the ids' first occurrences; a later duplicate does
\* not move its id.
C4_FirstOccurrenceOrder ==
  pc = "agg_returned" =>
    /\ {cloudtrail_data[i].eventID : i \in 1..Len(cloudtrail_data)} = SeenIds
    /\ \A i, j \in 1..Len(cloudtrail_data) :
         i < j => FirstSeen(cloudtrail_data[i].eventID)
                    < FirstSeen(cloudtrail_data[j].eventID)

\* a returned run in which an id was seen, then another id, then the first
\* id again with a different record
C4_Witness ==
  /\ pc = "agg_returned"
  /\ \E p, q, r \in 1..Len(Seen) :
       /\ p < q /\ q < r
       /\ Seen[p].eventID = Seen[r].eventID
       /\ Seen[q].eventID /= Seen[p].eventID
       /\ Seen[p] /= Seen[r]
       /\ cloudtrail_data[1] = Seen[r]

\* the lines of the events at positions from..to
LinesOf(from, to) == [i \in 1..(to - from + 1) |-> Line(events[from + i - 1])]
Min(a, b) == IF a <= b THEN a ELSE b

\* C2: a returned write of N > Threshold events left exactly the files
\* _part1 .. _partK, K = ceil(N / Threshold), part i holding the lines of the
\* events (i-1)*Threshold+1 .. min(i*Threshold, N) in order.
C2_ChunksExact ==
  (pc = "w_returned" /\ Len(events) > Threshold) =>
    LET N == Len(events)
        K == (N + Threshold - 1) \div Threshold
    IN  /\ DOMAIN fs = {PartPath(OutputFilepath, i) : i \in 1..K}
        /\ \A i \in 1..K :
             fs[PartPath(OutputFilepath, i)] =
               LinesOf((i - 1) * Threshold + 1, Min(i * Threshold, N))

\* a returned write of exactly twice the threshold: two full parts
C2_Witness ==
  /\ pc = "w_returned"
  /\ Len(events) = 2 * Threshold
  /\ file_index = 2
  /\ Len(fs[PartPath(OutputFilepath, 2)]) = Threshold

\* C3: a write of N <= Threshold events, N = 0 included, leaves exactly one
\* file, at the given path, with N lines, and the first file is opened before
\* the first record is written, however many records there are.
C3_SingleFile ==
  /\ (pc = "w_returned" /\ Len(events) <= Threshold) =>
       /\ DOMAIN fs = {OutputFilepath}
       /\ fs[OutputFilepath] = LinesOf(1, Len(events))
  /\ pc \in {"w_returned", "w_write"} => opened /= <<>>

\* C5: on every text, read_gz_file on a .jsonl.gz name and read_jsonl_file
\* give the same outcome: the same records in the same order, or both fail.
C5_GzipEquivalence ==
  (dec_jsonl /= NotRun /\ dec_gz /= NotRun) => dec_jsonl = dec_gz

\* a line with a character other than its '\n' in it
NonEmptyLine(line) == line /= <<>> /\ line /= <<"NL">>

\* C6: decoding newline-delimited JSON parses the non-empty lines in order;
\* an empty line is skipped, neither failing the decode nor adding a record.
C6_EmptyLinesSkipped ==
  /\ dec_jsonl /= NotRun =>
       dec_jsonl = LoadLines(SelectSeq(FileLines(TranslateNewlines(dec_text), <<>>),
                                       NonEmptyLine), <<>>)
  /\ dec_gz /= NotRun =>
       dec_gz = LoadLines(SelectSeq(splitlines(TranslateNewlines(dec_text), <<>>),
                                    NonEmptyLine), <<>>)

\* C7: a decode, missing-field or timestamp failure ends the run with no
\* output: nothing is normalized before every file is aggregated, the writer
\* does nothing before every record is normalized, and a run that raised one
\* of these has stopped without a directory or a file made.
C7_NoPartialOutput ==
  /\ raised /= "" => pc = "failed"
  /\ raised \in {"decode", "missing field", "timestamp"} =>
       /\ ~dir_made
       /\ fs = <<>>
       /\ opened = <<>>
  /\ events /= <<>> =>
       /\ index = Len(file_paths)
       /\ pc \notin {"main", "agg_loop", "agg_read", "agg_insert"}
  /\ (dir_made \/ pc = "w_start") => Len(events) = Len(cloudtrail_data)

\* a run that failed on a timestamp after it had normalized a record
C7_Witness ==
  /\ pc = "failed"
  /\ raised = "timestamp"
  /\ Len(events) >= 1
  /\ fs = <<>>

\* C8: in no terminal state, normal or failed, is an input or output file
\* handle still open.
C8_HandlesReleased ==
  pc \in {"failed", "w_returned"} => open_inputs = {} /\ open_outputs = {}

\* the event is what the record normalizes to as far as its optional fields
\* go
DefaultsApplied(record, event) ==
  /\ event.Username = (IF "userName" \in DOMAIN record.userIdentity
                         THEN record.userIdentity.userName ELSE "")
  /\ event.AccessKeyId = (IF "accessKeyId" \in DOMAIN record.userIdentity
                            THEN record.userIdentity.accessKeyId ELSE "")
  /\ "resources" \notin DOMAIN record => event.Resources = <<>>
  /\ "resources" \in DOMAIN record =>
       /\ Len(event.Resources) = Len(record.resources)
       /\ \A j \in 1..Len(record.resources) :
            LET res == record.resources[j] IN
            /\ event.Resources[j].ResourceType =
                 (IF "type" \in DOMAIN res THEN res.type ELSE "Unknown")
            /\ event.Resources[j].ResourceName =
                 (IF "ARN" \in DOMAIN res THEN res.ARN ELSE "Unknown")

\* the events are those of the first records, one each, in order
EventsFollowRecords ==
  /\ Len(events) <= Len(cloudtrail_data)
  /\ \A i \in 1..Len(events) :
       /\ events[i].CloudTrailEvent.dumps = cloudtrail_data[i]
       /\ events[i].EventId = cloudtrail_data[i].eventID
       /\ DefaultsApplied(cloudtrail_data[i], events[i])
  /\ pc = "norm_returned" => Len(events) = Len(cloudtrail_data)

\* C9 as stated: the loop body never fails on a record that has all the
\* required fields, the optional fields default as described, and the events
\* are one per record in order.
C9_NeverFailsWithRequiredFields ==
  /\ pc = "failed" =>
       ~(RequiredFields \subseteq DOMAIN cloudtrail_data[Len(events) + 1])
  /\ EventsFollowRecords

\* C9 amended: the loop body never fails on a record that has all the
\* required fields and an eventTime in the format '%Y-%m-%dT%H:%M:%SZ'; the
\* optional fields default as described, and the events are one per record in
\* order.
C9_NeverFailsWellFormed ==
  /\ pc = "failed" =>
       LET record == cloudtrail_data[Len(events) + 1] IN
       \/ ~(RequiredFields \subseteq DOMAIN record)
       \/ ~strptime_ok(record.eventTime)
  /\ EventsFollowRecords

\* a returned run over two records: one with an empty userIdentity and two
\* resources of which the first has neither type nor ARN, one without
\* resources
C9_Witness ==
  /\ pc = "norm_returned"
  /\ Len(events) = 2
  /\ cloudtrail_data[1].userIdentity = EmptyDict
  /\ "resources" \in DOMAIN cloudtrail_data[1]
  /\ Len(cloudtrail_data[1].resources) = 2
  /\ cloudtrail_data[1].resources[1] = EmptyDict
  /\ cloudtrail_data[1].resources[2] /= EmptyDict
  /\ "resources" \notin DOMAIN cloudtrail_data[2]

\* the files opened before the current one are closed and, when the output
\* is split, full
EarlierChunksDone ==
  \A i \in 1..(Len(opened) - 1) :
    /\ opened[i] \notin open_outputs
    /\ multiple_files => Len(fs[opened[i].path]) = Threshold

\* C10: in a write that does not fail at most one output file is open at any
\* moment, a chunk's lines are written and its file closed before the next
\* file is opened, every line goes to the file opened last, and at return
\* every file opened is closed.
C10_OneOpenFile ==
  /\ [](raised = "" =>
          /\ Cardinality(open_outputs) <= 1
          /\ EarlierChunksDone
          /\ pc = "w_returned" => open_outputs = {})
  /\ [][line_count' = line_count + 1 =>
          /\ opened /= <<>>
          /\ opened[Len(opened)] \in open_outputs
          /\ fs' = [fs EXCEPT ![opened[Len(opened)].path] =
                      Append(@, Line(events[line_count + 1]))]]_vars

\* a returned write that opened three files
C10_Witness ==
  /\ pc = "w_returned"
  /\ Len(opened) = 3
  /\ raised = ""

====
